---- MODULE Spec2Model ----
(***************************************************************************)
(* A model of clean_master_multithreaded.py: the three-step recording id   *)
(* resolution of process_df over the MusicBrainz reference tables, and the *)
(* chunked load / process / write / log loop of driver.                    *)
(*                                                                         *)
(* Two specifications share the variables:                                 *)
(*   SpecResolver  calls of process_df, the frame after each statement    *)
(*                 recorded, over the reference tables and input frames;   *)
(*   Spec          the module's run of driver(MLHD_PATHS[:15]) followed by *)
(*                 the master log, over every path count, chunk size and   *)
(*                 log epoch of the bounds.                                *)
(***************************************************************************)
EXTENDS Integers, Sequences, FiniteSets, TLC

VARIABLES
    \* the reference tables, loaded once at import (lines 55-72)
    rec_gid_set, MB_rec_redirects, MB_rec_canonical, MB_artist_credit_list,
    \* the calls of process_df made so far and, of the latest, its argument, the
    \* frame after each statement, and the caller's timing list before and after
    calls, df_arg, df_redirected, df_canonical, artist_release_mbids, df_input,
    timings_arg, process_timings_list,
    \* configuration and the file list
    MLHD_PATHS, CHUNK_SIZE, LOG_EPOCH,
    \* driver's locals
    pc, path_list, chunks, i, df_list, load_timings, process_timings, map_pos,
    zip_df, write_paths, write_timings, file_counter,
    \* module globals and the outside world
    OUTPUT_LOG, log_file, master_log_file, out_files, console

tables == <<rec_gid_set, MB_rec_redirects, MB_rec_canonical, MB_artist_credit_list>>
call == <<calls, df_arg, df_redirected, df_canonical, artist_release_mbids, df_input,
          timings_arg, process_timings_list>>
cfg == <<MLHD_PATHS, CHUNK_SIZE, LOG_EPOCH>>
locals == <<pc, path_list, chunks, i, df_list, load_timings, process_timings, map_pos,
            zip_df, write_paths, write_timings, file_counter>>
world == <<OUTPUT_LOG, log_file, master_log_file, out_files, console>>
vars == <<tables, call, cfg, locals, world>>

----------------------------------------------------------------------------
(* Bounds *)

MaxRows == 2
MaxCalls == 2
MaxPaths == 16
MaxChunkSize == 3
MaxLogEpoch == 3

(* MLHD_PATHS[:15], the slice the module hands to driver *)
DriverSlice == 15

----------------------------------------------------------------------------
(* Values *)

nan == "nan"

RecordingIds == {"A1", "A2", "R1"}

(* the recording ids a listening table may hold, null included *)
IdCycle == <<"R1", "A1", "A2", nan>>

(* the artist and release a recording is credited with in the artist table *)
CreditOf(x) == [artist_mbids |-> "ART_" \o x, release_mbid |-> "REL_" \o x]

(* the artist and release ids an input row carries before cleaning *)
RawArtist == "ART_RAW"
RawRelease == "REL_RAW"

(* the value round(end - start, 2) appends to a timing list *)
elapsed == "dt"

Min(a, b) == IF a < b THEN a ELSE b

PartialFns(D, R) == UNION {[S -> R] : S \in SUBSET D}

(* the ids that may have a row in the redirect and in the canonical table *)
RedirectOld == {"R1", "A1"}
CanonicalOld == {"A1", "A2"}

(* old -> new tables (redirect, canonical), indexed by 'old'; a row maps an id
   to another id *)
MappingTables(old) ==
    {t \in PartialFns(old, [new : RecordingIds]) :
        \A x \in DOMAIN t : t[x].new # x}

ArtistTables == {[x \in S |-> CreditOf(x)] : S \in SUBSET RecordingIds}

Row(ts, rec) ==
    [timestamp |-> ts, artist_MBID |-> RawArtist, release_MBID |-> RawRelease,
     recording_MBID |-> rec]

(* the listening table of len rows whose recording ids run through IdCycle from
   position s; f tags the timestamps *)
Frame(f, s, len) ==
    [r \in 1..len |-> Row(<<f, r>>, IdCycle[((s + r - 2) % Len(IdCycle)) + 1])]

Frames == {Frame(0, s, len) : s \in 1..Len(IdCycle), len \in 0..MaxRows}

----------------------------------------------------------------------------
(* lib.io_ lookups *)

(* io.replace(x, table, column): the column's value at index x, nan on a miss *)
replace(x, table, column) ==
    IF x \in DOMAIN table THEN table[x][column] ELSE nan

(* io.replace_multi(x, table): the (artist, release) pair at index x *)
replace_multi(x, table) ==
    IF x \in DOMAIN table
    THEN <<table[x].artist_mbids, table[x].release_mbid>>
    ELSE <<nan, nan>>

----------------------------------------------------------------------------
(* process_df *)

redirect_lambda_unguarded(x) == replace(x, MB_rec_redirects, "new")

(* step 1's lambda *)
redirect_lambda(x) ==
    IF x \notin rec_gid_set THEN replace(x, MB_rec_redirects, "new") ELSE x

canonical_lambda_unguarded(x) == replace(x, MB_rec_canonical, "new")

canonical_lambda_chained(x) ==
    LET y == IF replace(x, MB_rec_canonical, "new") # nan
             THEN replace(x, MB_rec_canonical, "new") ELSE x
    IN  IF replace(y, MB_rec_canonical, "new") # nan
        THEN replace(y, MB_rec_canonical, "new") ELSE y

(* step 2's lambda *)
canonical_lambda(x) ==
    IF replace(x, MB_rec_canonical, "new") # nan
    THEN replace(x, MB_rec_canonical, "new")
    ELSE x

(* step 3's lambda *)
artist_release_lambda(x) == replace_multi(x, MB_artist_credit_list)

(* df['recording_MBID'] = df['recording_MBID'].map(step 1) *)
RedirectStep(df) ==
    [r \in DOMAIN df |->
        [df[r] EXCEPT !.recording_MBID = redirect_lambda(df[r].recording_MBID)]]

(* df['recording_MBID'] = df['recording_MBID'].map(step 2) *)
CanonicalStep(df) ==
    [r \in DOMAIN df |->
        [df[r] EXCEPT !.recording_MBID = canonical_lambda(df[r].recording_MBID)]]

(* artist_release_mbids = df['recording_MBID'].map(step 3) *)
ArtistReleaseLookup(df) ==
    [r \in DOMAIN df |-> artist_release_lambda(df[r].recording_MBID)]

SelectSeqIdx(s, Keep(_)) ==
    LET F[n \in 0..Len(s)] ==
            IF n = 0 THEN <<>>
            ELSE IF Keep(n) THEN Append(F[n - 1], s[n]) ELSE F[n - 1]
    IN  F[Len(s)]

AssignArtistRelease_dropna(df, pairs) ==
    SelectSeqIdx(
        [r \in DOMAIN df |->
            [df[r] EXCEPT !.artist_MBID = pairs[r][1], !.release_MBID = pairs[r][2]]],
        LAMBDA r : pairs[r] # <<nan, nan>>)

(* df[['artist_MBID', 'release_MBID']] = DataFrame(pairs.tolist(), index=df.index) *)
AssignArtistRelease(df, pairs) ==
    [r \in DOMAIN df |->
        [df[r] EXCEPT !.artist_MBID = pairs[r][1], !.release_MBID = pairs[r][2]]]

process_df_steps_raw_lookup(df) ==
    LET s1 == RedirectStep(df)
        s2 == CanonicalStep(s1)
        s3 == ArtistReleaseLookup(df)
    IN  [redirected |-> s1, canonical |-> s2, pairs |-> s3,
         returned |-> AssignArtistRelease(s2, s3)]

(* the statements of process_df in order: the frame after each *)
process_df_steps(df) ==
    LET s1 == RedirectStep(df)
        s2 == CanonicalStep(s1)
        s3 == ArtistReleaseLookup(s2)
    IN  [redirected |-> s1, canonical |-> s2, pairs |-> s3,
         returned |-> AssignArtistRelease(s2, s3)]

TablesInit ==
    /\ rec_gid_set \in SUBSET RecordingIds
    /\ MB_rec_redirects \in MappingTables(RedirectOld)
    /\ MB_rec_canonical \in MappingTables(CanonicalOld)
    /\ MB_artist_credit_list \in ArtistTables

CallIdle ==
    /\ calls = 0
    /\ df_arg = <<>>
    /\ df_redirected = <<>>
    /\ df_canonical = <<>>
    /\ artist_release_mbids = <<>>
    /\ df_input = <<>>
    /\ timings_arg = <<>>
    /\ process_timings_list = <<>>

DriverIdle ==
    /\ MLHD_PATHS = <<>>
    /\ CHUNK_SIZE = 1
    /\ LOG_EPOCH = 1
    /\ pc = "idle"
    /\ path_list = <<>>
    /\ chunks = <<>>
    /\ i = 0
    /\ df_list = <<>>
    /\ load_timings = <<>>
    /\ process_timings = <<>>
    /\ map_pos = 0
    /\ zip_df = <<>>
    /\ write_paths = <<>>
    /\ write_timings = <<>>
    /\ file_counter = 0
    /\ OUTPUT_LOG = <<>>
    /\ log_file = <<>>
    /\ master_log_file = <<>>
    /\ out_files = <<>>
    /\ console = <<>>

(* process_df(df, process_timings_list): one call, start to return *)
ProcessDf ==
    /\ calls < MaxCalls
    /\ calls' = calls + 1
    /\ \E df \in Frames :
        LET s == process_df_steps(df) IN
        /\ df_arg' = df
        /\ df_redirected' = s.redirected
        /\ df_canonical' = s.canonical
        /\ artist_release_mbids' = s.pairs
        /\ df_input' = s.returned
    /\ timings_arg' = process_timings_list
    /\ process_timings_list' = Append(process_timings_list, elapsed)
    /\ UNCHANGED <<tables, cfg, locals, world>>

InitResolver == TablesInit /\ CallIdle /\ DriverIdle

NextResolver == ProcessDf

SpecResolver == InitResolver /\ [][NextResolver]_vars

----------------------------------------------------------------------------
(* driver *)

(* the frame process_df returns *)
process_df(df) == process_df_steps(df).returned

chunker_full_batches(input_list, batch_size) ==
    [c \in 1..(Len(input_list) \div batch_size) |->
        SubSeq(input_list, (c - 1) * batch_size + 1, c * batch_size)]

(* [input_list[i:i+batch_size] for i in range(0, len(input_list), batch_size)] *)
chunker(input_list, batch_size) ==
    [c \in 1..((Len(input_list) + batch_size - 1) \div batch_size) |->
        SubSeq(input_list, (c - 1) * batch_size + 1,
               Min(c * batch_size, Len(input_list)))]

(* io.load_path(path): the listening table stored in the file *)
load_path(path) == Frame(path, path, 1 + (path % MaxRows))

(* the output location io.write_frame derives from an input path *)
OutPath(path) == <<"WRITE_ROOT", path>>

(* io.write_frame(df, path): the files on disk after the write *)
write_frame(files, df, path) == Append(files, [path |-> OutPath(path), df |-> df])

(* io.log_output("", write_paths, timings, monotonic(), OUTPUT_LOG) *)
log_output(paths, timings, output_log) ==
    Append(output_log, [paths |-> paths, timings |-> timings])

(* io.write_log(log, path): the log file holds the log as it is now *)
write_log(log) == log

(* the reference tables of the two worked examples: a redirected id, and a
   canonicalized id *)
ExampleTables ==
    { [gids |-> {"A1"},
       redirects |-> [x \in {"R1"} |-> [new |-> "A1"]],
       canonical |-> <<>>,
       credits |-> [x \in {"A1"} |-> CreditOf(x)]],
      [gids |-> {"A1"},
       redirects |-> <<>>,
       canonical |-> [x \in {"A1"} |-> [new |-> "A2"]],
       credits |-> [x \in {"A2"} |-> CreditOf(x)]] }

chunk == chunks[i + 1]

Log(line) == console' = Append(console, line)

(* driver(MLHD_PATHS[:15]) is entered: lines 177-181 *)
DriverStart ==
    /\ pc = "start"
    /\ path_list' = SubSeq(MLHD_PATHS, 1, Min(DriverSlice, Len(MLHD_PATHS)))
    /\ file_counter' = 0
    /\ chunks' = chunker(path_list', CHUNK_SIZE)
    /\ i' = 0
    /\ Log([msg |-> "Looping through MLHD files"])
    /\ pc' = "for"
    /\ UNCHANGED <<df_list, load_timings, process_timings, map_pos, zip_df, write_paths,
                   write_timings, OUTPUT_LOG, log_file, master_log_file, out_files,
                   tables, call, cfg>>

(* the loop takes its next chunk and load_chunk starts: lines 182-185, 120-121 *)
ForNext ==
    /\ pc = "for"
    /\ i < Len(chunks)
    /\ Log([msg |-> "Loading Chunk", chunk |-> i])
    /\ df_list' = <<>>
    /\ load_timings' = <<>>
    /\ pc' = "load"
    /\ UNCHANGED <<path_list, chunks, i, process_timings, map_pos, zip_df, write_paths,
                   write_timings, file_counter, OUTPUT_LOG, log_file, master_log_file,
                   out_files, tables, call, cfg>>

(* load_chunk reads one path: lines 123-129 *)
LoadPath ==
    /\ pc = "load"
    /\ Len(df_list) < Len(chunk)
    /\ df_list' = Append(df_list, load_path(chunk[Len(df_list) + 1]))
    /\ load_timings' = Append(load_timings, elapsed)
    /\ UNCHANGED <<pc, path_list, chunks, i, process_timings, map_pos, zip_df,
                   write_paths, write_timings, file_counter, world, tables, call, cfg>>

(* load_chunk returns; the map over the frames is built, unevaluated, and the
   chunk is reported processed; write_chunk starts: lines 131, 190-209, 147-148 *)
ProcessChunk ==
    /\ pc = "load"
    /\ Len(df_list) = Len(chunk)
    /\ process_timings' = <<>>
    /\ map_pos' = 0
    /\ console' = console \o
          << [msg |-> "Loaded Chunk", chunk |-> i, took |-> load_timings],
             [msg |-> "Processing Chunk", chunk |-> i],
             [msg |-> "Processed Chunk", chunk |-> i, took |-> process_timings'],
             [msg |-> "Writing Chunk", chunk |-> i] >>
    /\ write_paths' = <<>>
    /\ write_timings' = <<>>
    /\ pc' = "zip"
    /\ UNCHANGED <<path_list, chunks, i, df_list, load_timings, zip_df, file_counter,
                   OUTPUT_LOG, log_file, master_log_file, out_files, tables, call, cfg>>

(* zip asks the map for its next frame, which runs process_df on it: lines 150, 196 *)
ZipNext ==
    /\ pc = "zip"
    /\ map_pos < Len(df_list)
    /\ zip_df' = process_df(df_list[map_pos + 1])
    /\ process_timings' = Append(process_timings, elapsed)
    /\ map_pos' = map_pos + 1
    /\ pc' = "write_frame"
    /\ UNCHANGED <<path_list, chunks, i, df_list, load_timings, write_paths,
                   write_timings, file_counter, world, tables, call, cfg>>

(* the body of write_chunk's loop: lines 151-156 *)
WriteFrame ==
    /\ pc = "write_frame"
    /\ out_files' = write_frame(out_files, zip_df, chunk[map_pos])
    /\ write_paths' = Append(write_paths, OutPath(chunk[map_pos]))
    /\ write_timings' = Append(write_timings, elapsed)
    /\ pc' = "zip"
    /\ UNCHANGED <<path_list, chunks, i, df_list, load_timings, process_timings, map_pos,
                   zip_df, file_counter, OUTPUT_LOG, log_file, master_log_file, console,
                   tables, call, cfg>>

(* the map is exhausted: write_chunk returns and the chunk is logged:
   lines 158, 211-226 *)
LogOutput ==
    /\ pc = "zip"
    /\ map_pos = Len(df_list)
    /\ Log([msg |-> "Wrote Chunk", chunk |-> i, took |-> write_timings])
    /\ file_counter' = file_counter + Len(chunk) + 1
    /\ OUTPUT_LOG' = log_output(write_paths,
                                <<load_timings, process_timings, write_timings>>,
                                OUTPUT_LOG)
    /\ pc' = "epoch"
    /\ UNCHANGED <<path_list, chunks, i, df_list, load_timings, process_timings, map_pos,
                   zip_df, write_paths, write_timings, log_file, master_log_file,
                   out_files, tables, call, cfg>>

(* lines 228-229, the test true *)
WriteLog ==
    /\ pc = "epoch"
    /\ file_counter % LOG_EPOCH = 0
    /\ log_file' = write_log(OUTPUT_LOG)
    /\ i' = i + 1
    /\ pc' = "for"
    /\ UNCHANGED <<path_list, chunks, df_list, load_timings, process_timings, map_pos,
                   zip_df, write_paths, write_timings, file_counter, OUTPUT_LOG,
                   master_log_file, out_files, console, tables, call, cfg>>

(* line 228, the test false *)
SkipWriteLog ==
    /\ pc = "epoch"
    /\ file_counter % LOG_EPOCH # 0
    /\ i' = i + 1
    /\ pc' = "for"
    /\ UNCHANGED <<path_list, chunks, df_list, load_timings, process_timings, map_pos,
                   zip_df, write_paths, write_timings, file_counter, world, tables,
                   call, cfg>>

(* the loop ends and driver returns: lines 234-238 *)
DriverReturn ==
    /\ pc = "for"
    /\ i = Len(chunks)
    /\ Log([msg |-> "Looped through files", files |-> Len(path_list)])
    /\ pc' = "outro"
    /\ UNCHANGED <<path_list, chunks, i, df_list, load_timings, process_timings, map_pos,
                   zip_df, write_paths, write_timings, file_counter, OUTPUT_LOG, log_file,
                   master_log_file, out_files, tables, call, cfg>>

(* the master log is written and the run ends: lines 259-272 *)
WriteMasterLog ==
    /\ pc = "outro"
    /\ master_log_file' = write_log([Log_Path |-> "LOG_WRITE_PATH"])
    /\ console' = console \o
          << [msg |-> "Finished Process"],
             [msg |-> "Output log written to", path |-> "LOG_WRITE_PATH"] >>
    /\ pc' = "finished"
    /\ UNCHANGED <<path_list, chunks, i, df_list, load_timings, process_timings, map_pos,
                   zip_df, write_paths, write_timings, file_counter, OUTPUT_LOG, log_file,
                   out_files, tables, call, cfg>>

Init ==
    /\ \E t \in ExampleTables :
        /\ rec_gid_set = t.gids
        /\ MB_rec_redirects = t.redirects
        /\ MB_rec_canonical = t.canonical
        /\ MB_artist_credit_list = t.credits
    /\ CallIdle
    /\ \E n \in 0..MaxPaths : MLHD_PATHS = [p \in 1..n |-> p]
    /\ CHUNK_SIZE \in 1..MaxChunkSize
    /\ LOG_EPOCH \in 1..MaxLogEpoch
    /\ pc = "start"
    /\ path_list = <<>>
    /\ chunks = <<>>
    /\ i = 0
    /\ df_list = <<>>
    /\ load_timings = <<>>
    /\ process_timings = <<>>
    /\ map_pos = 0
    /\ zip_df = <<>>
    /\ write_paths = <<>>
    /\ write_timings = <<>>
    /\ file_counter = 0
    /\ OUTPUT_LOG = <<>>
    /\ log_file = <<>>
    /\ master_log_file = <<>>
    /\ out_files = <<>>
    /\ console = <<>>

Next ==
    \/ DriverStart
    \/ ForNext
    \/ LoadPath
    \/ ProcessChunk
    \/ ZipNext
    \/ WriteFrame
    \/ LogOutput
    \/ WriteLog
    \/ SkipWriteLog
    \/ DriverReturn
    \/ WriteMasterLog

Spec == Init /\ [][Next]_vars

----------------------------------------------------------------------------
(* What the reference tables say of a recording id, read off the tables *)

HasRedirect(x) == x \in DOMAIN MB_rec_redirects
HasCanonical(x) == x \in DOMAIN MB_rec_canonical
HasCredit(x) == x \in DOMAIN MB_artist_credit_list

(* one redirect lookup, skipped for a known id, then one canonical lookup *)
LookedUpOnce(x) ==
    LET y == IF x \in rec_gid_set THEN x
             ELSE IF HasRedirect(x) THEN MB_rec_redirects[x].new ELSE nan
    IN  IF HasCanonical(y) THEN MB_rec_canonical[y].new ELSE y

(* no redirect and no canonical mapping applies to x any more *)
Terminal(x) == (x \in rec_gid_set \/ ~HasRedirect(x)) /\ ~HasCanonical(x)

Rows == DOMAIN df_arg
raw(r) == df_arg[r].recording_MBID
redirected(r) == df_redirected[r].recording_MBID
canonical(r) == df_canonical[r].recording_MBID
resolved(r) == df_input[r].recording_MBID

----------------------------------------------------------------------------
(* process_df, under SpecResolver *)

(* C1: step 1 leaves a recording id of the identity set as it is, redirect
   entry or not, and replaces an id outside the set that has a redirect entry
   by the entry's 'new' value. *)
C1_RedirectResolution ==
    /\ DOMAIN df_redirected = Rows
    /\ \A r \in Rows :
        /\ raw(r) \in rec_gid_set => redirected(r) = raw(r)
        /\ raw(r) \notin rec_gid_set /\ HasRedirect(raw(r))
              => redirected(r) = MB_rec_redirects[raw(r)].new

C1_Witness ==
    /\ calls > 0
    /\ \E r \in Rows :
        raw(r) \in rec_gid_set /\ HasRedirect(raw(r)) /\ redirected(r) = raw(r)
    /\ \E r \in Rows :
        raw(r) \notin rec_gid_set /\ HasRedirect(raw(r)) /\ redirected(r) # raw(r)

(* C2: a recording id absent from the identity set and from the redirect,
   canonical and artist tables comes out of process_df unchanged, with a null
   artist id and a null release id. *)
C2_UnknownIdPassesThrough ==
    \A r \in Rows :
        /\ raw(r) \in RecordingIds
        /\ raw(r) \notin rec_gid_set
        /\ ~HasRedirect(raw(r)) /\ ~HasCanonical(raw(r)) /\ ~HasCredit(raw(r))
        => /\ Len(df_input) = Len(df_arg)
           /\ resolved(r) = raw(r)
           /\ df_input[r].artist_MBID = nan
           /\ df_input[r].release_MBID = nan

(* C3: step 2 replaces a post-redirect id that has a canonical entry by the
   entry's 'new' value and leaves any other id as it is. *)
C3_CanonicalResolution ==
    /\ DOMAIN df_canonical = Rows
    /\ \A r \in Rows :
        canonical(r) = IF HasCanonical(redirected(r))
                       THEN MB_rec_canonical[redirected(r)].new
                       ELSE redirected(r)

C3_Witness ==
    /\ calls > 0
    /\ \E r \in Rows :
        /\ redirected(r) # raw(r)
        /\ HasCanonical(redirected(r))
        /\ canonical(r) # redirected(r)
    /\ \E r \in Rows :
        ~HasCanonical(redirected(r)) /\ canonical(r) = redirected(r) /\ canonical(r) # nan

(* C4: step 3 sets a row's artist and release id to the pair the artist table
   holds for the id as it is after the redirect and canonical steps, and to
   (null, null) when the table has no row for it, whatever the row carried. *)
C4_ArtistReleaseResolution ==
    /\ DOMAIN df_input = Rows
    /\ \A r \in Rows :
        /\ resolved(r) = canonical(r)
        /\ <<df_input[r].artist_MBID, df_input[r].release_MBID>> =
              IF HasCredit(canonical(r))
              THEN <<MB_artist_credit_list[canonical(r)].artist_mbids,
                     MB_artist_credit_list[canonical(r)].release_mbid>>
              ELSE <<nan, nan>>

C4_Witness ==
    /\ calls > 0
    /\ \E r \in Rows :
        /\ canonical(r) # raw(r)
        /\ HasCredit(canonical(r)) /\ ~HasCredit(raw(r))
        /\ df_input[r].artist_MBID = CreditOf(canonical(r)).artist_mbids
    /\ \E r \in Rows :
        /\ ~HasCredit(canonical(r)) /\ HasCredit(raw(r))
        /\ df_arg[r].artist_MBID # nan
        /\ df_input[r].artist_MBID = nan

(* C5, as claimed: a recording id that is a key of the redirect or of the
   canonical table comes out as a terminal value, one to which no further
   redirect or canonical mapping applies. *)
C5_TerminalValue ==
    \A r \in Rows :
        HasRedirect(raw(r)) \/ HasCanonical(raw(r)) => Terminal(resolved(r))

(* C5, amended: a recording id that is a key of the redirect or of the
   canonical table comes out as the result of one redirect lookup (skipped for
   an id of the identity set, null for an id outside it without a redirect
   entry) followed by one canonical lookup (the value kept on a miss); chains
   are not followed.  An id of the identity set without a canonical entry comes
   out unchanged. *)
C5_SingleLookups ==
    /\ DOMAIN df_input = Rows
    /\ \A r \in Rows :
        /\ HasRedirect(raw(r)) \/ HasCanonical(raw(r))
              => resolved(r) = LookedUpOnce(raw(r))
        /\ raw(r) \in rec_gid_set /\ ~HasCanonical(raw(r)) => resolved(r) = raw(r)

C5_Witness ==
    /\ calls > 0
    /\ \E r \in Rows :
        /\ raw(r) \notin rec_gid_set /\ HasRedirect(raw(r))
        /\ resolved(r) = MB_rec_redirects[raw(r)].new
        /\ resolved(r) \notin rec_gid_set /\ HasRedirect(resolved(r))
        /\ MB_rec_redirects[resolved(r)].new # raw(r)
    /\ \E r \in Rows :
        raw(r) \in rec_gid_set /\ ~HasCanonical(raw(r)) /\ resolved(r) = raw(r)

(* C7: process_df returns as many rows as it was given, the i-th being the
   i-th input row resolved with its timestamp untouched, and each call appends
   exactly one elapsed time to the timing list. *)
C7_RowsAndTimings ==
    /\ Len(df_input) = Len(df_arg)
    /\ \A r \in Rows :
        /\ df_input[r].timestamp = df_arg[r].timestamp
        /\ resolved(r) = LookedUpOnce(raw(r))
        /\ df_input[r].artist_MBID =
              IF HasCredit(resolved(r))
              THEN MB_artist_credit_list[resolved(r)].artist_mbids ELSE nan
        /\ df_input[r].release_MBID =
              IF HasCredit(resolved(r))
              THEN MB_artist_credit_list[resolved(r)].release_mbid ELSE nan
    /\ Len(process_timings_list) = calls
    /\ calls > 0 => process_timings_list = Append(timings_arg, elapsed)

C7_Witness ==
    /\ calls = MaxCalls
    /\ Len(df_arg) = MaxRows
    /\ \E r, q \in Rows :
        /\ r < q
        /\ resolved(r) # raw(r) /\ resolved(r) # nan
        /\ ~HasCredit(resolved(q))
        /\ resolved(q) # resolved(r)

----------------------------------------------------------------------------
(* driver, under Spec *)

RECURSIVE Concat(_)
Concat(ss) == IF ss = <<>> THEN <<>> ELSE Head(ss) \o Concat(Tail(ss))

RECURSIVE Total(_, _)
(* the number of timings of one kind (1 load, 2 process, 3 write) in a log *)
Total(log, kind) ==
    IF log = <<>> THEN 0 ELSE Len(Head(log).timings[kind]) + Total(Tail(log), kind)

(* the batches driver has finished with *)
BatchesDone == IF pc = "epoch" THEN i + 1 ELSE i

(* C6: the batches are contiguous slices of the file list, each of CHUNK_SIZE
   files but for a shorter last one, and the files written are the files of the
   list, in order, each once, each the processed table of its own input at the
   output path of that input; by the end every file was loaded, processed and
   written exactly once. *)
C6_Chunking ==
    pc # "start" =>
        /\ Concat(chunks) = path_list
        /\ \A c \in 1..Len(chunks) :
            /\ Len(chunks[c]) \in 1..CHUNK_SIZE
            /\ c < Len(chunks) => Len(chunks[c]) = CHUNK_SIZE
        /\ Len(out_files) <= Len(path_list)
        /\ \A k \in 1..Len(out_files) :
            /\ out_files[k].path = OutPath(path_list[k])
            /\ Len(out_files[k].df) = Len(load_path(path_list[k]))
            /\ \A r \in DOMAIN out_files[k].df :
                out_files[k].df[r].timestamp = <<path_list[k], r>>
        /\ Concat([b \in 1..Len(OUTPUT_LOG) |-> OUTPUT_LOG[b].paths]) =
              [k \in 1..Len(Concat(SubSeq(chunks, 1, BatchesDone))) |->
                  OutPath(path_list[k])]
        /\ pc \in {"outro", "finished"} =>
            /\ Len(out_files) = Len(path_list)
            /\ \A kind \in 1..3 : Total(OUTPUT_LOG, kind) = Len(path_list)

C6_Witness ==
    /\ pc = "finished"
    /\ Len(chunks) > 1
    /\ CHUNK_SIZE > 1
    /\ Len(chunks[Len(chunks)]) < CHUNK_SIZE
    /\ Len(out_files) = Len(path_list)
    /\ Len(path_list) < Len(MLHD_PATHS)

(* C8: within a batch the phases run in the order load, process, write, log:
   every file of the batch is processed before the first is written and before
   the "Processed Chunk" total is reported, and the batch's log entry is made
   after its last write and before the next batch's first load. *)
C8_PhasesInOrder ==
    pc \in {"load", "zip", "write_frame", "epoch"} =>
        /\ write_paths # <<>> /\ pc # "load" => Len(process_timings) = Len(chunk)
        /\ \A m \in DOMAIN console :
            console[m].msg = "Processed Chunk" /\ console[m].chunk = i
                => Len(console[m].took) = Len(chunk)
        /\ Len(OUTPUT_LOG) = i + 1 => Len(write_paths) = Len(chunk)
        /\ pc = "load" => Len(OUTPUT_LOG) = i

(* C9: at the end of a batch the log is flushed when the number of files
   handled so far is a multiple of LOG_EPOCH, and only then. *)
C9_FlushEveryEpoch ==
    pc = "for" /\ i > 0 =>
        (log_file = OUTPUT_LOG <=> Len(out_files) % LOG_EPOCH = 0)

(* C10: when the run ends, master log written, every batch's log entry is in
   the log file. *)
C10_LogFlushedAtEnd ==
    pc = "finished" => log_file = OUTPUT_LOG

====
